---- MODULE Spec2Model ----
(***************************************************************************)
(* A model of the medi8 Mediator (src/src/lib.rs): two hash maps keyed by  *)
(* TypeId holding type-erased handlers, two register operations and two    *)
(* send operations.                                                        *)
(***************************************************************************)
EXTENDS Naturals, Sequences, FiniteSets, TLC

(***************************************************************************)
(* Bounds of the model and the small sets the inputs are drawn from.       *)
(***************************************************************************)
\* the largest number of notification handlers one Mediator holds (all lists)
MaxHandlers == 2

\* the types of the embedding application; a type may implement Request,
\* Notification or both, and TypeId::of::<T>() is T's identity
TypeIds == {"Greet", "Ping"}

\* the response types a handler may be registered with / a caller may expect
RespTypes == {"String", "usize"}

\* request handlers (implementations of RequestHandler<R, Resp>)
RequestHandlers == {"GreetHandler", "EchoHandler"}

\* notification handlers (implementations of NotificationHandler<N>):
\* PingHandler records the call and returns; StrictHandler overwrites the
\* copy it was given and panics on a "poison" notification
NotificationHandlers == {"PingHandler", "StrictHandler"}

\* the field values of a request and of a notification
RequestData == {"Alice", "Bob"}
NotificationData == {"ping", "poison"}

Requests(R) == [type : {R}, data : RequestData]
Notifications(N) == [type : {N}, data : NotificationData]

(***************************************************************************)
(* Option and Result values.                                               *)
(***************************************************************************)
None == [some |-> FALSE]
Some(v) == [some |-> TRUE, value |-> v]

Ok(v) == [kind |-> "Ok", value |-> v]
Err(e) == [kind |-> "Err", error |-> e]
Unit == [kind |-> "Unit"]
Panicked == [kind |-> "Panic"]

NoHandlerRegistered == "No handler registered for request."
HandlerTypeMismatch == "Handler found, but type mismatch occurred."

(***************************************************************************)
(* std::collections::HashMap as a set of <<key, value>> pairs.             *)
(***************************************************************************)
HashMapNew == {}

HashMapKeys(map) == {p[1] : p \in map}

\* a lookup that settles for another key's entry when the key has none
HashMapGetAny(map, key) ==
    IF \E p \in map : p[1] = key
    THEN Some((CHOOSE p \in map : p[1] = key)[2])
    ELSE IF map # {} THEN Some((CHOOSE p \in map : TRUE)[2]) ELSE None

HashMapGet(map, key) ==
    IF \E p \in map : p[1] = key
    THEN Some((CHOOSE p \in map : p[1] = key)[2])
    ELSE None

\* insert without dropping the entry already stored under the key
HashMapInsertKeepOld(map, key, value) ==
    map \cup {<<key, value>>}

HashMapInsert(map, key, value) ==
    {p \in map : p[1] # key} \cup {<<key, value>>}

(***************************************************************************)
(* Type erasure: a Box<dyn Any> remembers the TypeId of what it holds, and *)
(* downcast_ref::<T>() succeeds exactly when that is T's.                  *)
(***************************************************************************)
BoxDynRequestHandler(R, Resp) == <<"RequestHandler", R, Resp>>
BoxDynNotificationHandler(N) == <<"NotificationHandler", N>>

BoxAny(type_id, handler) == [type_id |-> type_id, handler |-> handler]

\* a downcast to the unboxed trait object, which a Box<dyn Any> never holds
DowncastRefUnboxed(boxed, type_id) == None

\* a downcast that compares the request type only
DowncastRefRequestTypeOnly(boxed, type_id) ==
    IF boxed.type_id[1] = type_id[1] /\ boxed.type_id[2] = type_id[2]
    THEN Some(boxed.handler)
    ELSE None

DowncastRef(boxed, type_id) ==
    IF boxed.type_id = type_id THEN Some(boxed.handler) ELSE None

(***************************************************************************)
(* The handlers' behaviour.                                                *)
(***************************************************************************)
\* RequestHandler::handle: the response H(r), a value of type Resp
RequestHandle(handler, Resp, request) ==
    [by |-> handler, type |-> Resp, of |-> request.data]

\* Clone::clone of a notification: a fieldwise copy
Clone(notification) ==
    [type |-> notification.type, data |-> notification.data]

\* what a notification handler leaves in the value it was handed
Consume(handler, notification) ==
    IF handler = "StrictHandler"
    THEN [notification EXCEPT !.data = "consumed"]
    ELSE notification

\* NotificationHandler::handle fails
Panics(handler, notification) ==
    handler = "StrictHandler" /\ notification.data = "poison"

(***************************************************************************)
(* Mediator                                                                *)
(***************************************************************************)
new == [request_handlers |-> HashMapNew, notification_handlers |-> HashMapNew]

\* register_request that keeps a handler already bound to R
register_request_keep_first(self, R, Resp, handler) ==
    IF R \in HashMapKeys(self.request_handlers)
    THEN self
    ELSE [self EXCEPT !.request_handlers =
            HashMapInsert(@, R, BoxAny(BoxDynRequestHandler(R, Resp), handler))]

\* register_request that rebuilds the table around the new entry
register_request_reset(self, R, Resp, handler) ==
    [self EXCEPT !.request_handlers =
        {<<R, BoxAny(BoxDynRequestHandler(R, Resp), handler)>>}]

register_request(self, R, Resp, handler) ==
    LET type_id == R
        boxed_handler == BoxAny(BoxDynRequestHandler(R, Resp), handler)
    IN  [self EXCEPT !.request_handlers = HashMapInsert(@, type_id, boxed_handler)]

\* register_notification that puts the new handler first
register_notification_front(self, N, handler) ==
    LET found == HashMapGet(self.notification_handlers, N)
        entry == IF found.some THEN found.value ELSE <<>>
    IN  [self EXCEPT !.notification_handlers =
            HashMapInsert(@, N, <<BoxAny(BoxDynNotificationHandler(N), handler)>> \o entry)]

\* register_notification that only takes the first handler of a type
register_notification_first_only(self, N, handler) ==
    IF N \in HashMapKeys(self.notification_handlers)
    THEN self
    ELSE [self EXCEPT !.notification_handlers =
            HashMapInsert(@, N, <<BoxAny(BoxDynNotificationHandler(N), handler)>>)]

\* register_notification that stores the handler itself, not the
\* Box<dyn NotificationHandler<N>> that send_notification downcasts to
register_notification_unboxed(self, N, handler) ==
    LET found == HashMapGet(self.notification_handlers, N)
        entry == IF found.some THEN found.value ELSE <<>>
    IN  [self EXCEPT !.notification_handlers =
            HashMapInsert(@, N, Append(entry, BoxAny(<<"Handler", handler>>, handler)))]

register_notification(self, N, handler) ==
    LET type_id == N
        found == HashMapGet(self.notification_handlers, type_id)
        entry == IF found.some THEN found.value ELSE <<>>
        boxed == BoxAny(BoxDynNotificationHandler(N), handler)
    IN  [self EXCEPT !.notification_handlers =
            HashMapInsert(@, type_id, Append(entry, boxed))]

Invocation(table, handler, received) ==
    [table |-> table, handler |-> handler, received |-> received]

\* send_request that takes the handler out of the table when it uses it
send_request_take(self, R, Resp, request) ==
    LET boxed_handler == HashMapGet(self.request_handlers, R)
    IN  IF ~boxed_handler.some
        THEN [self |-> self, result |-> Err(NoHandlerRegistered), invoked |-> <<>>]
        ELSE LET handler == DowncastRef(boxed_handler.value, BoxDynRequestHandler(R, Resp))
             IN  IF ~handler.some
                 THEN [self |-> self, result |-> Err(HandlerTypeMismatch), invoked |-> <<>>]
                 ELSE [self |-> [self EXCEPT !.request_handlers =
                                    {p \in @ : p[1] # R}],
                       result |-> Ok(RequestHandle(handler.value, Resp, request)),
                       invoked |-> <<Invocation("request", handler.value, request)>>]

\* send_request that falls back to a handler bound to another request type
send_request_fallback(self, R, Resp, request) ==
    LET boxed_handler == HashMapGet(self.request_handlers, R)
        others == {p \in self.request_handlers :
                      DowncastRef(p[2], BoxDynRequestHandler(p[1], Resp)).some}
    IN  IF ~boxed_handler.some
        THEN IF others = {}
             THEN [self |-> self, result |-> Err(NoHandlerRegistered), invoked |-> <<>>]
             ELSE LET other == (CHOOSE p \in others : TRUE)[2].handler
                  IN  [self |-> self,
                       result |-> Ok(RequestHandle(other, Resp, request)),
                       invoked |-> <<Invocation("request", other, request)>>]
        ELSE LET handler == DowncastRef(boxed_handler.value, BoxDynRequestHandler(R, Resp))
             IN  IF ~handler.some
                 THEN [self |-> self, result |-> Err(HandlerTypeMismatch), invoked |-> <<>>]
                 ELSE [self |-> self,
                       result |-> Ok(RequestHandle(handler.value, Resp, request)),
                       invoked |-> <<Invocation("request", handler.value, request)>>]

\* send_request with the two error messages exchanged
send_request_swapped_errors(self, R, Resp, request) ==
    LET boxed_handler == HashMapGet(self.request_handlers, R)
    IN  IF ~boxed_handler.some
        THEN [self |-> self, result |-> Err(HandlerTypeMismatch), invoked |-> <<>>]
        ELSE LET handler == DowncastRef(boxed_handler.value, BoxDynRequestHandler(R, Resp))
             IN  IF ~handler.some
                 THEN [self |-> self, result |-> Err(NoHandlerRegistered), invoked |-> <<>>]
                 ELSE [self |-> self,
                       result |-> Ok(RequestHandle(handler.value, Resp, request)),
                       invoked |-> <<Invocation("request", handler.value, request)>>]

send_request(self, R, Resp, request) ==
    LET type_id == R
        boxed_handler == HashMapGet(self.request_handlers, type_id)
    IN  IF ~boxed_handler.some
        THEN [self |-> self, result |-> Err(NoHandlerRegistered), invoked |-> <<>>]
        ELSE LET handler == DowncastRef(boxed_handler.value, BoxDynRequestHandler(R, Resp))
             IN  IF ~handler.some
                 THEN [self |-> self, result |-> Err(HandlerTypeMismatch), invoked |-> <<>>]
                 ELSE [self |-> self,
                       result |-> Ok(RequestHandle(handler.value, Resp, request)),
                       invoked |-> <<Invocation("request", handler.value, request)>>]

\* hand the caller's own value to the handler instead of a clone
HandleShared(handler, notification) ==
    [received |-> notification,
     kept |-> Consume(handler, notification),
     panicked |-> Panics(handler, notification)]

\* handler.handle(notification.clone()): the handler consumes the clone and
\* the caller's value stays as it was
HandleClone(handler, notification) ==
    LET copy == Clone(notification)
    IN  [received |-> copy,
         kept |-> notification,
         panicked |-> Panics(handler, copy)]

\* a for loop that catches a handler's failure and goes on to the next one
RECURSIVE ForEachHandlerIsolated(_, _, _, _, _)
ForEachHandlerIsolated(handlers, i, N, notification, invoked) ==
    IF i > Len(handlers)
    THEN [result |-> Unit, invoked |-> invoked]
    ELSE LET handler == DowncastRef(handlers[i], BoxDynNotificationHandler(N))
         IN  IF ~handler.some
             THEN ForEachHandlerIsolated(handlers, i + 1, N, notification, invoked)
             ELSE LET done == HandleClone(handler.value, notification)
                  IN  ForEachHandlerIsolated(handlers, i + 1, N, done.kept,
                          Append(invoked,
                                 Invocation("notification", handler.value, done.received)))

\* the for loop of send_notification from position i on
RECURSIVE ForEachHandler(_, _, _, _, _)
ForEachHandler(handlers, i, N, notification, invoked) ==
    IF i > Len(handlers)
    THEN [result |-> Unit, invoked |-> invoked]
    ELSE LET handler == DowncastRef(handlers[i], BoxDynNotificationHandler(N))
         IN  IF ~handler.some
             THEN ForEachHandler(handlers, i + 1, N, notification, invoked)
             ELSE LET done == HandleClone(handler.value, notification)
                      log == Append(invoked,
                                    Invocation("notification", handler.value, done.received))
                  IN  IF done.panicked
                      THEN [result |-> Panicked, invoked |-> log]
                      ELSE ForEachHandler(handlers, i + 1, N, done.kept, log)

\* send_notification that creates the list it did not find
send_notification_or_insert(self, N, notification) ==
    LET handlers == HashMapGet(self.notification_handlers, N)
    IN  IF ~handlers.some
        THEN [self |-> [self EXCEPT !.notification_handlers = HashMapInsert(@, N, <<>>)],
              result |-> Unit, invoked |-> <<>>]
        ELSE LET out == ForEachHandler(handlers.value, 1, N, notification, <<>>)
             IN  [self |-> self, result |-> out.result, invoked |-> out.invoked]

send_notification(self, N, notification) ==
    LET type_id == N
        handlers == HashMapGet(self.notification_handlers, type_id)
    IN  IF ~handlers.some
        THEN [self |-> self, result |-> Unit, invoked |-> <<>>]
        ELSE LET out == ForEachHandler(handlers.value, 1, N, notification, <<>>)
             IN  [self |-> self, result |-> out.result, invoked |-> out.invoked]

(***************************************************************************)
(* State.                                                                  *)
(*   request_handlers, notification_handlers: the Mediator's two tables    *)
(*   twin: a second Mediator, given the same registrations                 *)
(*   call, result, invoked: the last call, what it returned and the        *)
(*       handler invocations it made, in order; the call of a registration *)
(*       also notes what it replaced and whether it follows a dispatch     *)
(*   history: what the callers have registered so far                      *)
(*   threads: for each dispatching thread, the send it is in or has ended  *)
(***************************************************************************)
VARIABLES request_handlers, notification_handlers, twin, call, result, invoked, history,
          threads

vars == <<request_handlers, notification_handlers, twin, call, result, invoked, history,
          threads>>

\* the threads that dispatch on the one Mediator once it is set up
Threads == {"t1", "t2"}

Idle == [pc |-> "idle"]

\* what each thread sends: t1 a request for Alice and a ping, t2 a request
\* for Bob and a poisoned notification
ThreadRequestData == [t1 |-> "Alice", t2 |-> "Bob"]
ThreadNotificationData == [t1 |-> "ping", t2 |-> "poison"]

Self == [request_handlers |-> request_handlers,
         notification_handlers |-> notification_handlers]

ListUnder(map, N) == IF HashMapGet(map, N).some THEN HashMapGet(map, N).value ELSE <<>>

RECURSIVE SumLen(_, _)
SumLen(map, keys) ==
    IF keys = {} THEN 0
    ELSE LET k == CHOOSE x \in keys : TRUE
         IN  (IF HashMapGet(map, k).some THEN Len(HashMapGet(map, k).value) ELSE 0)
             + SumLen(map, keys \ {k})

HandlerCount(self) == SumLen(self.notification_handlers, TypeIds)

NoHistory ==
    [requests |-> [R \in TypeIds |-> None],
     superseded |-> [R \in TypeIds |-> {}],
     notifications |-> [N \in TypeIds |-> <<>>]]

\* the caller registered handler for (R, Resp)
NoteRequest(h, R, Resp, handler) ==
    [h EXCEPT !.requests[R] = Some([resp |-> Resp, handler |-> handler]),
              !.superseded[R] =
                  (IF h.requests[R].some
                   THEN @ \cup {h.requests[R].value.handler}
                   ELSE @) \ {handler}]

\* the caller registered handler for N
NoteNotification(h, N, handler) ==
    [h EXCEPT !.notifications[N] = Append(@, handler)]

\* the response type of the registration for R that a new one replaces
ReplacedResp(h, R) ==
    IF h.requests[R].some THEN Some(h.requests[R].value.resp) ELSE None

\* the call before this one was a send_request for R that found no handler
AfterFailedRequest(c, r, R) ==
    c.op = "send_request" /\ c.type = R /\ r = Err(NoHandlerRegistered)

\* the call before this one was a send_notification for N
AfterNotification(c, N) ==
    c.op = "send_notification" /\ c.type = N

Init ==
    /\ request_handlers = new.request_handlers
    /\ notification_handlers = new.notification_handlers
    /\ twin = new
    /\ call = [op |-> "new", on |-> "both"]
    /\ result = Unit
    /\ invoked = <<>>
    /\ history = NoHistory
    /\ threads = [t \in Threads |-> Idle]

RegisterRequestStep(on, R, Resp, handler) ==
    LET after == register_request(Self, R, Resp, handler)
    IN  /\ request_handlers' = after.request_handlers
        /\ notification_handlers' = after.notification_handlers
        /\ twin' = IF on = "both" THEN register_request(twin, R, Resp, handler) ELSE twin
        /\ call' = [op |-> "register_request", on |-> on, type |-> R, resp |-> Resp,
                    handler |-> handler,
                    replaced |-> ReplacedResp(history, R),
                    after |-> AfterFailedRequest(call, result, R)]
        /\ result' = Unit
        /\ invoked' = <<>>
        /\ history' = NoteRequest(history, R, Resp, handler)
        /\ UNCHANGED threads

RegisterNotificationStep(on, N, handler) ==
    LET after == register_notification(Self, N, handler)
    IN  /\ HandlerCount(Self) < MaxHandlers
        /\ request_handlers' = after.request_handlers
        /\ notification_handlers' = after.notification_handlers
        /\ twin' = IF on = "both" THEN register_notification(twin, N, handler) ELSE twin
        /\ call' = [op |-> "register_notification", on |-> on, type |-> N,
                    handler |-> handler,
                    after |-> AfterNotification(call, N)]
        /\ result' = Unit
        /\ invoked' = <<>>
        /\ history' = NoteNotification(history, N, handler)
        /\ UNCHANGED threads

SendRequestStep(on, R, Resp, request) ==
    LET out == send_request(IF on = "twin" THEN twin ELSE Self, R, Resp, request)
    IN  /\ request_handlers' =
                IF on = "twin" THEN request_handlers ELSE out.self.request_handlers
        /\ notification_handlers' =
                IF on = "twin" THEN notification_handlers
                ELSE out.self.notification_handlers
        /\ twin' = IF on = "twin" THEN out.self ELSE twin
        /\ call' = [op |-> "send_request", on |-> on, type |-> R, resp |-> Resp,
                    request |-> request]
        /\ result' = out.result
        /\ invoked' = out.invoked
        /\ UNCHANGED <<history, threads>>

SendNotificationStep(on, N, notification) ==
    LET out == send_notification(IF on = "twin" THEN twin ELSE Self, N, notification)
    IN  /\ request_handlers' =
                IF on = "twin" THEN request_handlers ELSE out.self.request_handlers
        /\ notification_handlers' =
                IF on = "twin" THEN notification_handlers
                ELSE out.self.notification_handlers
        /\ twin' = IF on = "twin" THEN out.self ELSE twin
        /\ call' = [op |-> "send_notification", on |-> on, type |-> N,
                    notification |-> notification]
        /\ result' = out.result
        /\ invoked' = out.invoked
        /\ UNCHANGED <<history, threads>>

(***************************************************************************)
(* One Mediator and its callers.                                           *)
(***************************************************************************)
RegisterRequest ==
    \E R \in TypeIds, Resp \in RespTypes, handler \in RequestHandlers :
        RegisterRequestStep("self", R, Resp, handler)

RegisterNotification ==
    \E N \in TypeIds, handler \in NotificationHandlers :
        RegisterNotificationStep("self", N, handler)

SendRequest ==
    \E R \in TypeIds, Resp \in RespTypes :
        \E request \in Requests(R) : SendRequestStep("self", R, Resp, request)

SendNotification ==
    \E N \in TypeIds :
        \E notification \in Notifications(N) : SendNotificationStep("self", N, notification)

Next ==
    \/ RegisterRequest
    \/ RegisterNotification
    \/ SendRequest
    \/ SendNotification

Spec == Init /\ [][Next]_vars

(***************************************************************************)
(* Two Mediators that are given the same registrations, and each its own   *)
(* sends.                                                                  *)
(***************************************************************************)
RegisterRequestBoth ==
    \E R \in TypeIds, Resp \in RespTypes, handler \in RequestHandlers :
        RegisterRequestStep("both", R, Resp, handler)

RegisterNotificationBoth ==
    \E N \in TypeIds, handler \in NotificationHandlers :
        RegisterNotificationStep("both", N, handler)

SendRequestTwin ==
    \E R \in TypeIds, Resp \in RespTypes :
        \E request \in Requests(R) : SendRequestStep("twin", R, Resp, request)

SendNotificationTwin ==
    \E N \in TypeIds :
        \E notification \in Notifications(N) : SendNotificationStep("twin", N, notification)

NextTwin ==
    \/ RegisterRequestBoth
    \/ RegisterNotificationBoth
    \/ SendRequest
    \/ SendNotification
    \/ SendRequestTwin
    \/ SendNotificationTwin

SpecTwin == Init /\ [][NextTwin]_vars


(***************************************************************************)
(* Set up, then run: the registrations come first, from one thread; from   *)
(* BeginRun on, the threads dispatch on the shared Mediator. A thread's    *)
(* send_notification is one step for the lookup and one for each turn of   *)
(* its loop, so the handler calls of different threads interleave.         *)
(***************************************************************************)
Running == call.op = "run"

SetupRegisterRequest == ~Running /\ RegisterRequest

SetupRegisterNotification == ~Running /\ RegisterNotification

BeginRun ==
    /\ ~Running
    /\ call' = [op |-> "run", on |-> "self"]
    /\ result' = Unit
    /\ invoked' = <<>>
    /\ UNCHANGED <<request_handlers, notification_handlers, twin, history, threads>>

Ended(op, type, resp, value, res, log) ==
    [pc |-> "done", op |-> op, type |-> type, resp |-> resp, value |-> value,
     result |-> res, invoked |-> log]

\* a thread calls send_request: the lookup, the downcast and the handler call
ThreadSendRequest(t) ==
    /\ Running
    /\ threads[t].pc \in {"idle", "done"}
    /\ \E R \in TypeIds, Resp \in RespTypes :
          \E request \in {r \in Requests(R) : r.data = ThreadRequestData[t]} :
             LET out == send_request(Self, R, Resp, request)
             IN  /\ request_handlers' = out.self.request_handlers
                 /\ notification_handlers' = out.self.notification_handlers
                 /\ threads' = [threads EXCEPT ![t] =
                        Ended("send_request", R, Resp, request, out.result, out.invoked)]
    /\ UNCHANGED <<twin, call, result, invoked, history>>

\* a thread calls send_notification: the lookup of the handler list
ThreadSendNotification(t) ==
    /\ Running
    /\ threads[t].pc \in {"idle", "done"}
    /\ \E N \in TypeIds :
          \E notification \in {n \in Notifications(N) : n.data = ThreadNotificationData[t]} :
             LET handlers == HashMapGet(notification_handlers, N)
             IN  threads' = [threads EXCEPT ![t] =
                    IF ~handlers.some
                    THEN Ended("send_notification", N, "", notification, Unit, <<>>)
                    ELSE [pc |-> "for", type |-> N, notification |-> notification,
                          i |-> 1, invoked |-> <<>>]]
    /\ UNCHANGED <<request_handlers, notification_handlers, twin, call, result, invoked,
                   history>>

\* one turn of a thread's for loop, on the list it borrowed from the table
ThreadForEach(t) ==
    LET th == threads[t]
        handlers == ListUnder(notification_handlers, th.type)
        ended(res, log) == Ended("send_notification", th.type, "", th.notification, res, log)
    IN  /\ Running
        /\ th.pc = "for"
        /\ threads' = [threads EXCEPT ![t] =
              IF th.i > Len(handlers)
              THEN ended(Unit, th.invoked)
              ELSE LET handler == DowncastRef(handlers[th.i],
                                              BoxDynNotificationHandler(th.type))
                   IN  IF ~handler.some
                       THEN [th EXCEPT !.i = th.i + 1]
                       ELSE LET done == HandleClone(handler.value, th.notification)
                                log == Append(th.invoked,
                                          Invocation("notification", handler.value,
                                                     done.received))
                            IN  IF done.panicked
                                THEN ended(Panicked, log)
                                ELSE [th EXCEPT !.i = th.i + 1, !.invoked = log,
                                                !.notification = done.kept]]
        /\ UNCHANGED <<request_handlers, notification_handlers, twin, call, result,
                       invoked, history>>

NextConc ==
    \/ SetupRegisterRequest
    \/ SetupRegisterNotification
    \/ BeginRun
    \/ \E t \in Threads : ThreadSendRequest(t)
    \/ \E t \in Threads : ThreadSendNotification(t)
    \/ \E t \in Threads : ThreadForEach(t)

SpecConc == Init /\ [][NextConc]_vars

(***************************************************************************)
(* Properties.                                                             *)
(***************************************************************************)
Tables == <<request_handlers, notification_handlers>>

IsSend(c) == c.op \in {"send_request", "send_notification"}

Handlers(log) == [i \in 1..Len(log) |-> log[i].handler]

IsPrefix(s, t) == Len(s) <= Len(t) /\ \A i \in 1..Len(s) : s[i] = t[i]

\* C1: when the caller's latest registration for R is handler H with response
\* type Resp, a send_request for R expecting Resp returns Ok(H(r)) and the call
\* invoked H once, on r, and nothing else.
C1_RegisteredRequestReturnsHandlerResult ==
    (/\ call.op = "send_request"
     /\ history.requests[call.type].some
     /\ history.requests[call.type].value.resp = call.resp)
    => LET H == history.requests[call.type].value.handler
       IN  /\ result = Ok(RequestHandle(H, call.resp, call.request))
           /\ invoked = <<Invocation("request", H, call.request)>>

C1_Witness ==
    /\ call.op = "send_request"
    /\ history.requests[call.type] = Some([resp |-> "String", handler |-> "GreetHandler"])
    /\ call.request = [type |-> "Greet", data |-> "Alice"]
    /\ call.resp = "String"
    /\ result = Ok(RequestHandle("GreetHandler", "String", call.request))
    /\ Len(invoked) = 1

\* C2: a send_request for a type with no entry in the request table returns
\* Err("No handler registered for request."), invokes no handler and leaves
\* both tables as they were.
C2_UnregisteredRequestFails ==
    [][(call'.op = "send_request" /\ call'.type \notin HashMapKeys(request_handlers))
        => /\ result' = Err(NoHandlerRegistered)
           /\ invoked' = <<>>
           /\ Tables' = Tables]_vars

C2_Witness ==
    /\ call.op = "send_request"
    /\ call.type \notin HashMapKeys(request_handlers)
    /\ request_handlers # {}
    /\ notification_handlers # {}
    /\ result = Err(NoHandlerRegistered)

\* C3: when R was registered with response type Resp1, a send_request for R
\* expecting another response type returns
\* Err("Handler found, but type mismatch occurred."), invokes no handler and
\* leaves both tables as they were.
C3_WrongResponseTypeFails ==
    [][(/\ call'.op = "send_request"
        /\ history.requests[call'.type].some
        /\ history.requests[call'.type].value.resp # call'.resp)
        => /\ result' = Err(HandlerTypeMismatch)
           /\ invoked' = <<>>
           /\ Tables' = Tables]_vars

C3_Witness ==
    /\ call.op = "send_request"
    /\ history.requests[call.type] = Some([resp |-> "String", handler |-> "GreetHandler"])
    /\ call.resp = "usize"
    /\ result = Err(HandlerTypeMismatch)
    /\ invoked = <<>>

\* C4: after a handler for R has been replaced by a later registration, no
\* send_request for R invokes a replaced handler, and a successful one returns
\* the result of the handler registered last.
C4_ReRegistrationReplaces ==
    call.op = "send_request"
    => /\ \A i \in 1..Len(invoked) :
             invoked[i].handler \notin history.superseded[call.type]
       /\ result.kind = "Ok"
          => /\ history.requests[call.type].some
             /\ result.value = RequestHandle(history.requests[call.type].value.handler,
                                             call.resp, call.request)

C4_Witness ==
    /\ call.op = "send_request"
    /\ history.superseded[call.type] = {"GreetHandler"}
    /\ history.requests[call.type].value.handler = "EchoHandler"
    /\ result.kind = "Ok"
    /\ Handlers(invoked) = <<"EchoHandler">>

C6_UnhandledNotificationIsNoOp ==
    [][(call'.op = "send_notification" /\ history.notifications[call'.type] = <<>>)
        => /\ result' = Unit
           /\ invoked' = <<>>
           /\ Tables' = Tables]_vars

C6_Witness ==
    /\ call.op = "send_notification"
    /\ history.notifications[call.type] = <<>>
    /\ call.type \notin HashMapKeys(notification_handlers)
    /\ notification_handlers # {}
    /\ request_handlers # {}
    /\ result = Unit

\* C7: the request table holds exactly one entry under each request type that
\* was ever registered and none under any other.
C7_OneHandlerPerRequestType ==
    \A R \in TypeIds :
        Cardinality({p \in request_handlers : p[1] = R})
            = IF history.requests[R].some THEN 1 ELSE 0

C7_Witness ==
    /\ call.op = "register_request"
    /\ history.superseded[call.type] # {}
    /\ Cardinality(request_handlers) = 1

\* C8: no send_request and no send_notification changes either table.
C8_SendsLeaveTablesAlone ==
    [][IsSend(call') => Tables' = Tables]_vars

C8_Witness ==
    /\ call.op = "send_request"
    /\ result.kind = "Ok"
    /\ call.type \in HashMapKeys(request_handlers)
    /\ notification_handlers # {}

\* C9: no step removes a key of the request table, and the list under each
\* notification type is a prefix of what it is after the step.
C9_TablesOnlyGrow ==
    [][/\ HashMapKeys(request_handlers) \subseteq HashMapKeys(request_handlers')
       /\ HashMapKeys(notification_handlers) \subseteq HashMapKeys(notification_handlers')
       /\ \A N \in TypeIds :
             IsPrefix(ListUnder(notification_handlers, N),
                      ListUnder(notification_handlers', N))]_vars

C9_Witness ==
    /\ call.op = "register_notification"
    /\ Len(ListUnder(notification_handlers, call.type)) = 2
    /\ ListUnder(notification_handlers, call.type)[1].handler # call.handler
    /\ request_handlers # {}

\* C10: two Mediators given the same registrations return the same outcome
\* for every request and expected response type, whatever sends each has
\* served.
C10_SameRegistrationsSameOutcome ==
    \A R \in TypeIds, Resp \in RespTypes :
        \A request \in Requests(R) :
            send_request(Self, R, Resp, request).result
                = send_request(twin, R, Resp, request).result

C10_Witness ==
    /\ call.op = "send_request"
    /\ call.on = "twin"
    /\ result.kind = "Ok"
    /\ send_request(Self, call.type, call.resp, call.request).result = result
    /\ \E R \in TypeIds : send_request(Self, R, "String", [type |-> R, data |-> "Bob"]).result.kind = "Err"

\* C11: a send_request step fails with NoHandlerRegistered exactly when the
\* request table has no entry under R, fails with HandlerTypeMismatch exactly
\* when R is registered with a response type other than the expected one, and
\* returns Ok in every other case; it has no fourth outcome and invokes no
\* handler but the one bound to R.
C11_TwoFailureKindsPartition ==
    [][call'.op = "send_request"
        => LET R == call'.type
               absent == R \notin HashMapKeys(request_handlers)
               mismatch == /\ ~absent
                           /\ history.requests[R].some
                           /\ history.requests[R].value.resp # call'.resp
           IN  /\ (result' = Err(NoHandlerRegistered)) <=> absent
               /\ (result' = Err(HandlerTypeMismatch)) <=> mismatch
               /\ (result'.kind = "Ok") <=> (~absent /\ ~mismatch)
               /\ result'.kind \in {"Ok", "Err"}
               /\ result'.kind = "Err" => invoked' = <<>>
               /\ \A i \in 1..Len(invoked') :
                     /\ history.requests[R].some
                     /\ invoked'[i].handler = history.requests[R].value.handler]_vars

C11_Witness ==
    /\ call.op = "send_request"
    /\ call.type = "Greet"
    /\ result = Err(NoHandlerRegistered)
    /\ history.requests["Ping"] = Some([resp |-> call.resp, handler |-> "EchoHandler"])
    /\ "Greet" \notin HashMapKeys(request_handlers)

\* C12: once a registration for R with response type Resp2 has replaced one
\* with another response type Resp1, the table holds the new entry alone: a
\* send_request for R expecting Resp1 returns HandlerTypeMismatch and invokes
\* nothing, and one expecting Resp2 returns the new handler's result (for the
\* send_request that follows the registration, and for every request value).
C12_ReRegistrationOverwritesResponseType ==
    [][/\ (/\ call.op = "register_request"
           /\ call.replaced.some
           /\ call.replaced.value # call.resp
           /\ call'.op = "send_request"
           /\ call'.type = call.type)
          => /\ call'.resp = call.replaced.value
                => (result' = Err(HandlerTypeMismatch) /\ invoked' = <<>>)
             /\ call'.resp = call.resp
                => /\ result' = Ok(RequestHandle(call.handler, call.resp, call'.request))
                   /\ invoked' = <<Invocation("request", call.handler, call'.request)>>
       /\ (/\ call'.op = "register_request"
           /\ call'.replaced.some
           /\ call'.replaced.value # call'.resp)
          => LET R == call'.type
                  self == [request_handlers |-> request_handlers',
                           notification_handlers |-> notification_handlers']
              IN  /\ {p \in request_handlers' : p[1] = R}
                        = {<<R, BoxAny(BoxDynRequestHandler(R, call'.resp), call'.handler)>>}
                  /\ \A request \in Requests(R) :
                        /\ send_request(self, R, call'.replaced.value, request).result
                               = Err(HandlerTypeMismatch)
                        /\ send_request(self, R, call'.replaced.value, request).invoked = <<>>
                        /\ send_request(self, R, call'.resp, request).result
                               = Ok(RequestHandle(call'.handler, call'.resp, request))
                        /\ send_request(self, R, call'.resp, request).invoked
                               = <<Invocation("request", call'.handler, request)>>]_vars

C12_Witness ==
    /\ call.op = "register_request"
    /\ call.replaced = Some("String")
    /\ call.resp = "usize"
    /\ history.superseded[call.type] # {}
    /\ send_request(Self, call.type, "String", [type |-> call.type, data |-> "Alice"]).result
           = Err(HandlerTypeMismatch)
    /\ send_request(Self, call.type, "usize", [type |-> call.type, data |-> "Alice"]).result.kind
           = "Ok"

\* C13: in every reachable state the list under notification type N holds, in
\* order, exactly the handlers registered for N, each boxed as a handler of N
\* (so its downcast in send_notification succeeds), and the entry under
\* request type R is boxed as a handler taking R; no send_notification skips a
\* registered handler.
C13_TablesAreHomogeneous ==
    /\ \A p \in notification_handlers :
          /\ p[1] \in TypeIds
          /\ Handlers(p[2]) = history.notifications[p[1]]
          /\ \A i \in 1..Len(p[2]) :
                DowncastRef(p[2][i], BoxDynNotificationHandler(p[1])).some
    /\ \A p \in request_handlers :
          /\ p[1] \in TypeIds
          /\ p[2].type_id[1] = "RequestHandler"
          /\ p[2].type_id[2] = p[1]
    /\ call.op = "send_notification"
          => /\ IsPrefix(Handlers(invoked), history.notifications[call.type])
             /\ result = Unit => Len(invoked) = Len(history.notifications[call.type])

C13_Witness ==
    /\ call.op = "send_notification"
    /\ result = Unit
    /\ Len(invoked) = 1
    /\ Cardinality(notification_handlers) = 2
    /\ Cardinality(request_handlers) = 2

FirstFailing(list, notification) ==
    LET failing == {i \in 1..Len(list) : Panics(list[i], notification)}
    IN  IF failing = {} THEN 0
        ELSE CHOOSE i \in failing : \A j \in failing : i <= j

\* C15: when the i-th handler registered for N fails on n, send_notification(n)
\* ends with that failure (and only then): the first i handlers have been
\* invoked once each, in order, on a value equal to n, the handlers after the
\* i-th have not been invoked, and both tables are as they were.
C15_HandlerFailurePropagates ==
    [][call'.op = "send_notification"
        => LET list == history.notifications[call'.type]
               i == FirstFailing(list, call'.notification)
           IN  /\ (result' = Panicked) <=> (i > 0)
               /\ i > 0
                  => /\ Handlers(invoked') = SubSeq(list, 1, i)
                     /\ \A j \in 1..Len(invoked') :
                           invoked'[j].received = call'.notification
                     /\ Tables' = Tables]_vars

C15_Witness ==
    /\ call.op = "send_notification"
    /\ result = Panicked
    /\ history.notifications[call.type] = <<"StrictHandler", "PingHandler">>
    /\ Handlers(invoked) = <<"StrictHandler">>
    /\ Len(ListUnder(notification_handlers, call.type)) = 2

Under(map, key) == {p \in map : p[1] = key}

\* C17: a register_request for R changes the request-table entry under R and
\* nothing else; a register_notification for N adds one element at the end
\* of the list under N and changes nothing else.
C17_RegistrationTouchesOwnSlot ==
    [][/\ call'.op = "register_request"
          => /\ \A R \in TypeIds \ {call'.type} :
                   Under(request_handlers', R) = Under(request_handlers, R)
             /\ Under(request_handlers', call'.type)
                   = {<<call'.type,
                        BoxAny(BoxDynRequestHandler(call'.type, call'.resp), call'.handler)>>}
             /\ HashMapKeys(request_handlers')
                   = HashMapKeys(request_handlers) \cup {call'.type}
             /\ notification_handlers' = notification_handlers
       /\ call'.op = "register_notification"
          => /\ \A N \in TypeIds \ {call'.type} :
                   Under(notification_handlers', N) = Under(notification_handlers, N)
             /\ Under(notification_handlers', call'.type)
                   = {<<call'.type,
                        Append(ListUnder(notification_handlers, call'.type),
                               BoxAny(BoxDynNotificationHandler(call'.type), call'.handler))>>}
             /\ HashMapKeys(notification_handlers')
                   = HashMapKeys(notification_handlers) \cup {call'.type}
             /\ request_handlers' = request_handlers]_vars

C17_Witness ==
    /\ call.op = "register_request"
    /\ call.replaced.some
    /\ Cardinality(request_handlers) = 2
    /\ Cardinality(notification_handlers) = 2

\* C18: a send_notification for N invokes notification handlers registered
\* for N only (none when N has none, whatever is registered for other types
\* or as a request handler for N), and a send_request for R invokes at most
\* the request handler bound to R and returns NoHandlerRegistered when R has
\* none, whatever notification handlers are registered for R.
C18_DispatchIsolatedByTypeAndTable ==
    /\ call.op = "send_notification"
          => /\ IsPrefix(Handlers(invoked), history.notifications[call.type])
             /\ \A i \in 1..Len(invoked) : invoked[i].table = "notification"
    /\ call.op = "send_request"
          => /\ \A i \in 1..Len(invoked) :
                   /\ invoked[i].table = "request"
                   /\ history.requests[call.type].some
                   /\ invoked[i].handler = history.requests[call.type].value.handler
             /\ Len(invoked) <= 1
             /\ ~history.requests[call.type].some
                   => (result = Err(NoHandlerRegistered) /\ invoked = <<>>)

C18_Witness ==
    /\ call.op = "send_request"
    /\ call.type = "Ping"
    /\ result = Err(NoHandlerRegistered)
    /\ history.notifications["Ping"] # <<>>
    /\ history.requests["Greet"].some
    /\ history.requests["Greet"].value.resp = call.resp

C18_WitnessNotification ==
    /\ call.op = "send_notification"
    /\ call.type = "Greet"
    /\ invoked = <<>>
    /\ history.requests["Greet"].some
    /\ history.notifications["Ping"] # <<>>

\* what a thread's send has done so far is what the same send does when it
\* runs alone on the Mediator
AsRunAlone(th, self) ==
    /\ (th.pc = "done" /\ th.op = "send_request")
          => LET alone == send_request(self, th.type, th.resp, th.value)
             IN  th.result = alone.result /\ th.invoked = alone.invoked
    /\ (th.pc = "done" /\ th.op = "send_notification")
          => LET alone == send_notification(self, th.type, th.value)
             IN  th.result = alone.result /\ th.invoked = alone.invoked
    /\ th.pc = "for"
          => LET alone == send_notification(self, th.type, th.notification)
             IN  /\ th.i - 1 <= Len(alone.invoked)
                 /\ th.invoked = SubSeq(alone.invoked, 1, th.i - 1)

\* C16: once the registrations are done and the threads dispatch, no step of
\* any thread changes a table, and every send, however its steps interleave
\* with the other thread's, invokes the handlers and returns the result it
\* would if it ran alone.
C16_InterleavedSendsAsAlone ==
    [][Running'
        => /\ Tables' = Tables
           /\ \A t \in Threads :
                 AsRunAlone(threads'[t],
                            [request_handlers |-> request_handlers',
                             notification_handlers |-> notification_handlers'])]_vars

C16_Witness ==
    /\ Running
    /\ threads["t1"].pc = "for" /\ threads["t1"].i = 2
    /\ threads["t2"].pc = "for" /\ threads["t2"].i = 2
    /\ threads["t1"].type = threads["t2"].type
    /\ Handlers(threads["t1"].invoked) = <<"PingHandler">>
    /\ request_handlers # {}

C16_WitnessEnded ==
    /\ Running
    /\ threads["t1"].pc = "done" /\ threads["t1"].op = "send_request"
    /\ threads["t1"].result.kind = "Ok"
    /\ threads["t2"].pc = "done" /\ threads["t2"].op = "send_notification"
    /\ threads["t2"].result = Panicked
    /\ Len(threads["t2"].invoked) = 2

====
